---- MODULE Spec2Model ----
(***************************************************************************)
(* Model of the replay binary of nitro (cmd/replay/main.go):               *)
(*   - PreimageCelestiaReader.Read, the Celestia square resolver, as a     *)
(*     state machine over its phases (data root, index arithmetic, row     *)
(*     loop, de-framing), specification SpecRead;                          *)
(*   - main, the replay driver, as a state machine over its oracle/tape    *)
(*     operations, specification Spec;                                     *)
(*   - two runs of main, one after the other, on the same tape and         *)
(*     oracle, specification SpecTwoRuns;                                  *)
(*   - BlobPreimageReader.GetBlobs, specification SpecBlobs.               *)
(* Go runtime panics (integer division by zero, index or slice out of      *)
(* range) are the outcome "panic"; a returned error is the outcome         *)
(* "error".  All values stay far below 2^64, so uint64 arithmetic does not *)
(* wrap within the bounds.                                                 *)
(***************************************************************************)
EXTENDS Integers, Sequences, FiniteSets, TLC

\* ---------------------------------------------------------------- bounds
MaxLeaves == 8
MaxStart == 13
MaxSharesLength == 8
MaxRowLen == 4
MaxSeqLen == 6
MaxHash == 1
MaxNonce == 1
MaxPosition == 1
MaxVersion == 1
MaxBlobHashes == 3
MaxBlobHash == 2
MaxCallbacks == 1
MaxBatch == 1
MaxBlockNumber == 1

\* ------------------------------------------------------ program constants
\* tree.NamespaceSize
NamespaceSize == 29
\* the literal of share[29:]
ExtraNamespace == 29
\* len(blob) of a kzg4844.Blob
BlobLength == 131072

VARIABLES
    \* PreimageCelestiaReader.Read
    rpc,          \* position in Read
    blobPointer,  \* [Start, SharesLength]
    leaves,       \* len(leaves) resolved under the data root
    squareSize, odsSize, startRow, startIndex, endRow, endIndex,
    i,            \* loop variable of the row loop
    rows,         \* len(row) of every row resolved so far
    shares,       \* the selected shares, each a sequence of bytes
    data,         \* the returned blob
    result,       \* "none" | "ok" | "error" | "panic"
    err,          \* which error or panic
    nmtCalls,     \* number of tree.NmtContent calls made
    \* main
    pc,                    \* position in main
    tape,                  \* the oracle and cursor operations made so far, in order
    positionWithinMessage, \* the cursor inside the current batch
    inboxPosition,         \* the sequencer inbox cursor
    lastBlockHash,
    lastBlockHeader,       \* Nil or [Root, Nonce]
    lastBlockStateRoot,
    arbChainParams,        \* Nil or [DataAvailabilityCommittee, CelestiaDA]
    delayedMessagesRead,
    keysetValidationMode,
    daProviders,
    message,               \* Nil or the popped [DelayedMessagesRead]
    path,                  \* "none" | "normal" | "genesis"
    newBlock,              \* Nil or [Hash, ArbOSFormatVersion, SendRoot]
    fatal,                 \* the panic that aborted main, "" if none
    \* runs of main against one tape
    run,                   \* 0 if main does not run, else the number of the run
    first,                 \* Nil or the final state of the first run
    position0,             \* the position within the message the tape starts at
    \* BlobPreimageReader.GetBlobs
    bpc,              \* position in GetBlobs
    versionedHashes,  \* the argument
    preimages,        \* the oracle under EthVersionedHashPreimageType
    blobs,            \* the local slice of blobs
    resolved,         \* the hashes handed to ResolveTypedPreimage so far, in order
    ret               \* Nil or the returned [blobs, err]

readVars == <<rpc, blobPointer, leaves, squareSize, odsSize, startRow,
              startIndex, endRow, endIndex, i, rows, shares, data, result,
              err, nmtCalls>>

mainVars == <<pc, tape, positionWithinMessage, inboxPosition, lastBlockHash,
              lastBlockHeader, lastBlockStateRoot, arbChainParams,
              delayedMessagesRead, keysetValidationMode, daProviders, message,
              path, newBlock, fatal>>

runVars == <<run, first, position0>>

blobVars == <<bpc, versionedHashes, preimages, blobs, resolved, ret>>

vars == <<readVars, mainVars, runVars, blobVars>>

\* a nil pointer
Nil == [nil |-> TRUE]

\* ------------------------------------------------------------ Go helpers
\* s[lo:hi] of Go, on a 1-indexed sequence
GoSlice(s, lo, hi) == SubSeq(s, lo + 1, hi)

\* binary.BigEndian.Uint32
BigEndianUint32(b) == b[1] * 16777216 + b[2] * 65536 + b[3] * 256 + b[4]

\* the four big-endian bytes of n (n < 2^31)
PutBigEndianUint32(n) ==
    <<(n \div 16777216) % 256, (n \div 65536) % 256, (n \div 256) % 256, n % 256>>

RECURSIVE Concat(_)
Concat(ss) == IF ss = <<>> THEN <<>> ELSE Head(ss) \o Concat(Tail(ss))

\* ------------------------------------------------- oracle contents (NMT)
\* The share at column c of row r, len bytes long: its first two bytes name
\* its place in the square, bytes [2*NamespaceSize+1, 2*NamespaceSize+5)
\* carry the sequence length seq, every other byte is a payload mark.
Share(r, c, len, seq) ==
    [k \in 1..len |->
        IF k = 1 THEN r
        ELSE IF k = 2 THEN c
        ELSE IF k > NamespaceSize * 2 + 1 /\ k <= NamespaceSize * 2 + 5
             THEN PutBigEndianUint32(seq)[k - (NamespaceSize * 2 + 1)]
        ELSE IF k > NamespaceSize * 2 + 5 THEN 100 + 10 * r + c
        ELSE 0]

\* Lengths a share may have: too short for any header, and long enough for
\* the first share's header and one byte of payload after it.
ShareLens == {NamespaceSize * 2, NamespaceSize * 2 + 5 + 1}

Row(r, n, len, seq) == [c \in 1..n |-> Share(r, c - 1, len, seq)]

\* ------------------------------------------- Read: the index arithmetic
SquareSize(nLeaves) == nLeaves \div 2

OdsSize(sq) == sq \div 2

\* if startIndex > odsSize (first check)
StartIndexTooLarge(sIdx, ods) == sIdx > ods

\* mutant: the bound on endIndex off by one
EndIndexTooLarge_OffByOne(eIdx, ods) == eIdx + 1 >= ods

\* if endIndex+1 > odsSize
EndIndexTooLarge(eIdx, ods) == eIdx + 1 > ods

FirstRowShares(sIdx, ods) == ods - sIdx

\* mutant: the check of SharesLength left out
ZeroSharesLength_Unchecked(p) == FALSE

\* if blobPointer.SharesLength == 0
ZeroSharesLength(p) == p.SharesLength = 0

\* remainingShares%odsSize > 0 ? 1 : 0
Carry(remaining, ods) == IF remaining % ods > 0 THEN 1 ELSE 0

\* mutant: the partial row decided against the width of the original square
PartialRow_ByOdsSize(p, sq) == p.SharesLength % (sq \div 2) > 0

\* blobPointer.SharesLength%squareSize > 0
PartialRow(p, sq) == p.SharesLength % sq > 0

\* endIndex before the reduction modulo squareSize, single-row branch
EndIndexSingle(p) == p.Start + p.SharesLength - 1

\* endIndex before the reduction modulo squareSize, partial last row
EndIndexPartial(eRow, remaining, ods) == (eRow * ods) + ((remaining % ods) - 1)

\* endIndex before the reduction modulo squareSize, full last row
EndIndexFull(eRow, ods) == (eRow * ods) - 1

\* The branch on SharesLength: endRow and the unreduced endIndex, or the
\* error or panic that ends Read.  sq > 0 and sIdx <= ods here.
EndOf(p, sq, ods, sRow, sIdx) ==
    LET frs == FirstRowShares(sIdx, ods) IN
    IF p.SharesLength <= frs
    THEN [st |-> "ok", err |-> "", endRow |-> sRow, endIndex |-> EndIndexSingle(p)]
    ELSE IF frs > p.SharesLength
    THEN [st |-> "error", err |-> "FirstRowShares", endRow |-> 0, endIndex |-> 0]
    ELSE IF ods = 0
    THEN [st |-> "panic", err |-> "DivideByZeroOdsSize", endRow |-> 0, endIndex |-> 0]
    ELSE LET remaining == p.SharesLength - frs
             rowsNeeded == remaining \div ods
             eRow == sRow + rowsNeeded + Carry(remaining, ods)
         IN  IF PartialRow(p, sq)
             THEN IF remaining % ods < 1
                  THEN [st |-> "error", err |-> "PartialRow", endRow |-> eRow, endIndex |-> 0]
                  ELSE [st |-> "ok", err |-> "", endRow |-> eRow,
                        endIndex |-> EndIndexPartial(eRow, remaining, ods)]
             ELSE IF eRow * ods < 1
                  THEN [st |-> "error", err |-> "EndRow", endRow |-> eRow, endIndex |-> 0]
                  ELSE [st |-> "ok", err |-> "", endRow |-> eRow,
                        endIndex |-> EndIndexFull(eRow, ods)]

\* Everything Read computes between the data root and the row loop.
Indices(p, nLeaves) ==
    LET sq == SquareSize(nLeaves)
        ods == OdsSize(sq)
        none == [st |-> "ok", err |-> "", squareSize |-> sq, odsSize |-> ods,
                 startRow |-> 0, startIndex |-> 0, endRow |-> 0, endIndex |-> 0]
    IN  IF sq = 0
        THEN [none EXCEPT !.st = "panic", !.err = "DivideByZeroSquareSize"]
        ELSE LET sRow == p.Start \div sq
                 sIdx == p.Start % sq
                 at == [none EXCEPT !.startRow = sRow, !.startIndex = sIdx]
             IN  IF StartIndexTooLarge(sIdx, ods)
                 THEN [at EXCEPT !.st = "error", !.err = "StartIndex"]
                 ELSE IF ZeroSharesLength(p)
                 THEN [at EXCEPT !.st = "error", !.err = "SharesLength"]
                 ELSE LET e == EndOf(p, sq, ods, sRow, sIdx) IN
                      IF e.st # "ok"
                      THEN [at EXCEPT !.st = e.st, !.err = e.err, !.endRow = e.endRow]
                      ELSE LET eIdx == e.endIndex % sq
                               to == [at EXCEPT !.endRow = e.endRow, !.endIndex = eIdx]
                           IN  IF sIdx > ods
                               THEN [to EXCEPT !.st = "error", !.err = "StartIndex2"]
                               ELSE IF EndIndexTooLarge(eIdx, ods)
                               THEN [to EXCEPT !.st = "error", !.err = "EndIndex"]
                               ELSE to

\* ------------------------------------------------ Read: the row selection
\* The shares one iteration of the row loop appends, from odsRow = row[:odsSize].
SelectShares(odsRow, row, sRow, eRow, sIdx, eIdx) ==
    IF sRow = eRow THEN GoSlice(odsRow, sIdx, eIdx + 1)
    ELSE IF row = sRow THEN GoSlice(odsRow, sIdx, Len(odsRow))
    ELSE IF row = eRow THEN GoSlice(odsRow, 0, eIdx + 1)
    ELSE odsRow

\* -------------------------------------------------- Read: the de-framing
\* the first share is too short to carry the sequence length
ShortFirstShare(share) ==
    \/ NamespaceSize * 2 + 1 > Len(share)
    \/ NamespaceSize * 2 + 5 > Len(share)

SequenceLength(share) ==
    BigEndianUint32(GoSlice(share, NamespaceSize * 2 + 1, NamespaceSize * 2 + 5))

\* bytes stripped from share number k (0-based) in all
Stripped(k) == ExtraNamespace + (IF k = 0 THEN NamespaceSize + 5 ELSE NamespaceSize + 1)

\* share[29:][NamespaceSize+5:] or share[29:][NamespaceSize+1:] is out of range
SliceOutOfRange(ss) == \E k \in 1..Len(ss) : Stripped(k - 1) > Len(ss[k])

\* the concatenation of the de-framed payloads
Payload(ss) == Concat([k \in 1..Len(ss) |-> GoSlice(ss[k], Stripped(k - 1), Len(ss[k]))])

\* mutant: the comparison off by one
LengthMismatch_OffByOne(seqLen, d) == seqLen >= Len(d)

\* if sequenceLength > uint32(len(data))
LengthMismatch(seqLen, d) == seqLen > Len(d)

\* data[:sequenceLength]
Truncate(d, seqLen) == GoSlice(d, 0, seqLen)

\* main does not run
MainIdle ==
    /\ pc = "idle"
    /\ tape = <<>>
    /\ positionWithinMessage = 0 /\ inboxPosition = 0
    /\ lastBlockHash = 0
    /\ lastBlockHeader = Nil
    /\ lastBlockStateRoot = 0
    /\ arbChainParams = Nil
    /\ delayedMessagesRead = 0
    /\ keysetValidationMode = "unset"
    /\ daProviders = <<>>
    /\ message = Nil
    /\ path = "none"
    /\ newBlock = Nil
    /\ fatal = ""
    /\ run = 0
    /\ first = Nil
    /\ position0 = 0

\* GetBlobs does not run
BlobsIdle ==
    /\ bpc = "idle"
    /\ versionedHashes = <<>>
    /\ preimages = <<>>
    /\ blobs = <<>>
    /\ resolved = <<>>
    /\ ret = Nil

\* ---------------------------------------------------------- Read: actions
Pointers == [Start : 0..MaxStart, SharesLength : 0..MaxSharesLength]

InitRead ==
    /\ rpc = "root"
    /\ blobPointer \in Pointers
    /\ leaves = 0
    /\ squareSize = 0 /\ odsSize = 0
    /\ startRow = 0 /\ startIndex = 0 /\ endRow = 0 /\ endIndex = 0
    /\ i = 0
    /\ rows = <<>>
    /\ shares = <<>>
    /\ data = <<>>
    /\ result = "none"
    /\ err = ""
    /\ nmtCalls = 0
    /\ MainIdle
    /\ BlobsIdle

\* tree.MerkleTreeContent under the data root: an error, or the leaves
ResolveDataRoot ==
    /\ rpc = "root"
    /\ \/ /\ rpc' = "done" /\ result' = "error" /\ err' = "MerkleTreeContent"
          /\ UNCHANGED leaves
       \/ /\ \E n \in 1..MaxLeaves : leaves' = n
          /\ rpc' = "index"
          /\ UNCHANGED <<result, err>>
    /\ UNCHANGED <<blobPointer, squareSize, odsSize, startRow, startIndex,
                   endRow, endIndex, i, rows, shares, data, nmtCalls>>
    /\ UNCHANGED <<mainVars, blobVars, runVars>>

\* squareSize ... the check of endIndex+1 against odsSize
ResolveIndices ==
    /\ rpc = "index"
    /\ LET x == Indices(blobPointer, leaves) IN
       /\ squareSize' = x.squareSize
       /\ odsSize' = x.odsSize
       /\ startRow' = x.startRow
       /\ startIndex' = x.startIndex
       /\ endRow' = x.endRow
       /\ endIndex' = x.endIndex
       /\ IF x.st = "ok"
          THEN /\ rpc' = "rows" /\ i' = x.startRow
               /\ UNCHANGED <<result, err>>
          ELSE /\ rpc' = "done" /\ result' = x.st /\ err' = x.err
               /\ UNCHANGED i
    /\ UNCHANGED <<blobPointer, leaves, rows, shares, data, nmtCalls>>
    /\ UNCHANGED <<mainVars, blobVars, runVars>>

\* one iteration of the row loop, with its exit test
ReadRow ==
    /\ rpc = "rows"
    /\ IF i >= squareSize
       THEN \* rowRoots[i] is out of range
            /\ rpc' = "done" /\ result' = "panic" /\ err' = "RowRootsIndex"
            /\ UNCHANGED <<i, rows, shares, nmtCalls>>
       ELSE /\ nmtCalls' = nmtCalls + 1
            /\ \/ \* tree.NmtContent returns an error
                  /\ rpc' = "done" /\ result' = "error" /\ err' = "NmtContent"
                  /\ UNCHANGED <<i, rows, shares>>
               \/ \E n \in 0..MaxRowLen, len \in ShareLens,
                     seq \in (IF shares = <<>> THEN 0..MaxSeqLen ELSE {0}) :
                  LET row == Row(i, n, len, seq) IN
                  /\ rows' = Append(rows, Len(row))
                  /\ IF odsSize > Len(row)
                     THEN /\ rpc' = "done" /\ result' = "error" /\ err' = "RowLength"
                          /\ UNCHANGED <<i, shares>>
                     ELSE IF startRow = endRow /\ startIndex > endIndex + 1
                     THEN /\ rpc' = "done" /\ result' = "error" /\ err' = "StartAfterEnd"
                          /\ UNCHANGED <<i, shares>>
                     ELSE /\ shares' = shares \o SelectShares(GoSlice(row, 0, odsSize), i,
                                                    startRow, endRow, startIndex, endIndex)
                          /\ IF startRow = endRow \/ i + 1 > endRow
                             THEN rpc' = "deframe" /\ UNCHANGED i
                             ELSE rpc' = "rows" /\ i' = i + 1
                          /\ UNCHANGED <<result, err>>
    /\ UNCHANGED <<blobPointer, leaves, squareSize, odsSize, startRow, startIndex,
                   endRow, endIndex, data>>
    /\ UNCHANGED <<mainVars, blobVars, runVars>>

\* from shares[0] to the return
Deframe ==
    /\ rpc = "deframe"
    /\ rpc' = "done"
    /\ IF shares = <<>>
       THEN result' = "panic" /\ err' = "NoShares" /\ UNCHANGED data
       ELSE IF ShortFirstShare(shares[1])
       THEN result' = "error" /\ err' = "ShortShare" /\ UNCHANGED data
       ELSE IF SliceOutOfRange(shares)
       THEN result' = "panic" /\ err' = "ShareSlice" /\ UNCHANGED data
       ELSE LET sequenceLength == SequenceLength(shares[1])
                d == Payload(shares)
            IN  IF LengthMismatch(sequenceLength, d)
                THEN result' = "error" /\ err' = "LengthMismatch" /\ UNCHANGED data
                ELSE result' = "ok" /\ err' = "" /\ data' = Truncate(d, sequenceLength)
    /\ UNCHANGED <<blobPointer, leaves, squareSize, odsSize, startRow, startIndex,
                   endRow, endIndex, i, rows, shares, nmtCalls>>
    /\ UNCHANGED <<mainVars, blobVars, runVars>>

NextRead == ResolveDataRoot \/ ResolveIndices \/ ReadRow \/ Deframe

SpecRead == InitRead /\ [][NextRead]_vars

\* ------------------------------------------------------------------ main
\* Read does not run
ReadIdle ==
    /\ rpc = "idle"
    /\ blobPointer = [Start |-> 0, SharesLength |-> 0]
    /\ leaves = 0
    /\ squareSize = 0 /\ odsSize = 0
    /\ startRow = 0 /\ startIndex = 0 /\ endRow = 0 /\ endIndex = 0
    /\ i = 0
    /\ rows = <<>>
    /\ shares = <<>>
    /\ data = <<>>
    /\ result = "none"
    /\ err = ""
    /\ nmtCalls = 0

\* one operation on the oracle or the cursor tape
Op(o, v) == [op |-> o, val |-> v]

\* lastBlockHeader.Nonce.Uint64() if there is a prior header
DelayedMessagesReadOf(header) == IF header # Nil THEN header.Nonce ELSE 0

\* mutant: the check of the two flags left out
ConflictingDA_Unchecked(p) == FALSE

\* mutant: the check rejects the committee alone
ConflictingDA_CommitteeOnly(p) == p.DataAvailabilityCommittee /\ ~p.CelestiaDA

\* arbChainParams.DataAvailabilityCommittee && arbChainParams.CelestiaDA
ConflictingDA(p) == p.DataAvailabilityCommittee /\ p.CelestiaDA

\* mutant: the resumed batch is validated again
KeysetMode_AlwaysPanic(pos) == "PanicIfInvalid"

\* KeysetPanicIfInvalid, or KeysetDontValidate if GetPositionWithinMessage() > 0
KeysetMode(pos) == IF pos > 0 THEN "DontValidate" ELSE "PanicIfInvalid"

\* the DAS reader and the Celestia reader if enabled, then the blob reader
Providers(p) ==
    (IF p.DataAvailabilityCommittee THEN <<"DAS">> ELSE <<>>)
    \o (IF p.CelestiaDA THEN <<"Celestia">> ELSE <<>>)
    \o <<"Blob">>

\* mutant: the branch tests lastBlockHash
ArbOSInitialized_ByHash(root, hash) == hash # 0

\* if lastBlockStateRoot != (common.Hash{})
ArbOSInitialized(root, hash) == root # 0

\* mutant: the check of ArbOSFormatVersion left out
VersionZero_Unchecked(block) == FALSE

\* if extraInfo.ArbOSFormatVersion == 0
VersionZero(block) == block.ArbOSFormatVersion = 0

\* params.ArbitrumChainParams{}
EmptyChainParams == [DataAvailabilityCommittee |-> FALSE, CelestiaDA |-> FALSE]

Init ==
    /\ ReadIdle
    /\ BlobsIdle
    /\ pc = "start"
    /\ tape = <<>>
    /\ positionWithinMessage \in 0..MaxPosition
    /\ inboxPosition = 0
    /\ lastBlockHash = 0
    /\ lastBlockHeader = Nil
    /\ lastBlockStateRoot = 0
    /\ arbChainParams = Nil
    /\ delayedMessagesRead = 0
    /\ keysetValidationMode = "unset"
    /\ daProviders = <<>>
    /\ message = Nil
    /\ path = "none"
    /\ newBlock = Nil
    /\ fatal = ""
    /\ run = 1
    /\ first = Nil
    /\ position0 = positionWithinMessage

\* lastBlockHash := wavmio.GetLastBlockHash()
GetLastBlockHash ==
    /\ pc = "start"
    /\ \E h \in 0..MaxHash :
          /\ lastBlockHash' = h
          /\ tape' = Append(tape, Op("GetLastBlockHash", h))
          /\ pc' = IF h # 0 THEN "header" ELSE "statedb"
    /\ UNCHANGED <<positionWithinMessage, inboxPosition, lastBlockHeader,
                   lastBlockStateRoot, arbChainParams, delayedMessagesRead,
                   keysetValidationMode, daProviders, message, path, newBlock, fatal>>
    /\ UNCHANGED <<readVars, blobVars, runVars>>

\* lastBlockHeader = getBlockHeaderByHash(lastBlockHash)
GetBlockHeaderByHash ==
    /\ pc = "header"
    /\ tape' = Append(tape, Op("ResolveTypedPreimage", lastBlockHash))
    /\ \/ /\ pc' = "aborted" /\ fatal' = "ResolvePreimage"
          /\ UNCHANGED <<lastBlockHeader, lastBlockStateRoot>>
       \/ /\ pc' = "aborted" /\ fatal' = "ParseHeader"
          /\ UNCHANGED <<lastBlockHeader, lastBlockStateRoot>>
       \/ /\ \E root \in 0..MaxHash, nonce \in 0..MaxNonce :
                /\ lastBlockHeader' = [Root |-> root, Nonce |-> nonce]
                /\ lastBlockStateRoot' = root
          /\ pc' = "statedb"
          /\ UNCHANGED fatal
    /\ UNCHANGED <<positionWithinMessage, inboxPosition, lastBlockHash,
                   arbChainParams, delayedMessagesRead, keysetValidationMode,
                   daProviders, message, path, newBlock>>
    /\ UNCHANGED <<readVars, blobVars, runVars>>

\* mutant: state.New in place of state.NewDeterministic, the state opened
\* with the caches that make what is read through it differ from run to run
NewDeterministic_Cached(root) == [Root |-> root, Deterministic |-> FALSE]

\* state.NewDeterministic(lastBlockStateRoot, db): the state behind the root,
\* opened in the mode in which what is read through it is a function of the
\* root and the oracle alone
NewDeterministic(root) == [Root |-> root, Deterministic |-> TRUE]

\* state.NewDeterministic(lastBlockStateRoot, db), then the branch on
\* lastBlockStateRoot; the genesis branch calls readMessage with empty params
OpenStateDb ==
    /\ pc = "statedb"
    /\ \/ /\ pc' = "aborted" /\ fatal' = "OpenStateDb"
          /\ UNCHANGED <<path, arbChainParams>>
       \/ /\ IF ArbOSInitialized(lastBlockStateRoot, lastBlockHash)
             THEN /\ path' = "normal" /\ pc' = "config"
                  /\ UNCHANGED arbChainParams
             ELSE /\ path' = "genesis" /\ pc' = "readMessage"
                  /\ arbChainParams' = EmptyChainParams
          /\ UNCHANGED fatal
    /\ UNCHANGED <<tape, positionWithinMessage, inboxPosition, lastBlockHash,
                   lastBlockHeader, lastBlockStateRoot, delayedMessagesRead,
                   keysetValidationMode, daProviders, message, newBlock>>
    /\ UNCHANGED <<readVars, blobVars, runVars>>

\* the panics of main on the way to the chain config: the ArbOS state not
\* opened, its chain id, genesis block number or chain config not read, the
\* config not parsed, its chain id or genesis block number another than the
\* state's, no hardcoded config for the chain id
ConfigFails ==
    {"OpenSystemArbosState", "ChainId", "GenesisBlockNum", "ChainConfig",
     "ParseChainConfig", "ChainIdMismatch", "GenesisBlockNumMismatch",
     "HardcodedChainConfig"}

\* OpenSystemArbosState ... the chain config, read from the state behind
\* lastBlockStateRoot or from the hardcoded table
LoadChainConfig ==
    /\ pc = "config"
    /\ tape' = Append(tape, Op("ResolveTypedPreimage", lastBlockStateRoot))
    /\ \/ /\ pc' = "aborted" /\ fatal' \in ConfigFails
          /\ UNCHANGED arbChainParams
       \/ /\ \E dac \in BOOLEAN, cel \in BOOLEAN :
                arbChainParams' = [DataAvailabilityCommittee |-> dac, CelestiaDA |-> cel]
          /\ pc' = "readMessage"
          /\ UNCHANGED fatal
    /\ UNCHANGED <<positionWithinMessage, inboxPosition, lastBlockHash,
                   lastBlockHeader, lastBlockStateRoot, delayedMessagesRead,
                   keysetValidationMode, daProviders, message, path, newBlock>>
    /\ UNCHANGED <<readVars, blobVars, runVars>>

\* readMessage, up to the construction of the inbox multiplexer
ReadMessage ==
    /\ pc = "readMessage"
    /\ delayedMessagesRead' = DelayedMessagesReadOf(lastBlockHeader)
    /\ IF ConflictingDA(arbChainParams)
       THEN /\ pc' = "aborted" /\ fatal' = "ConflictingDA"
            /\ UNCHANGED <<tape, keysetValidationMode, daProviders>>
       ELSE /\ tape' = Append(tape, Op("GetPositionWithinMessage", positionWithinMessage))
            /\ keysetValidationMode' = KeysetMode(positionWithinMessage)
            /\ daProviders' = Providers(arbChainParams)
            /\ pc' = "pop"
            /\ UNCHANGED fatal
    /\ UNCHANGED <<positionWithinMessage, inboxPosition, lastBlockHash,
                   lastBlockHeader, lastBlockStateRoot, arbChainParams, message,
                   path, newBlock>>
    /\ UNCHANGED <<readVars, blobVars, runVars>>

\* the variables of main that no method of WavmInbox or of a reader touches
mainLocals ==
    <<lastBlockHash, lastBlockHeader, lastBlockStateRoot, arbChainParams,
      delayedMessagesRead, keysetValidationMode, daProviders, message, path,
      newBlock>>

\* how many calls the pop and the block producer have made back into the
\* readers main handed them (PreimageDASReader.GetByHash, the batch fetchers,
\* chainContext.GetHeader): the oracle operations after the peek's two
Callbacks ==
    LET peek == {k \in 1..Len(tape) : tape[k].op = "GetInboxPosition"}
        back == {"ResolveTypedPreimage", "ReadInboxMessage"}
    IN  IF peek = {} THEN 0
        ELSE Cardinality({k \in 1..Len(tape) :
                             /\ \E j \in peek : j + 1 < k
                             /\ tape[k].op \in back})

\* where inboxMultiplexer.Pop stands between its calls of the backend: it
\* peeks the batch, may ask its number, asks the position within it, decodes
\* it through at most one of the readers main handed over, merges a delayed
\* message, and moves the cursor (spec 4.5, 4.7)
PopStages ==
    {"peeked", "numbered", "located", "decoded", "merged", "advanced", "emitted"}

\* WavmInbox.PeekSequencerInbox(): reads the batch under the cursor; logging
\* res[:8] panics when the batch read is shorter than 8 bytes
PeekSequencerInbox ==
    /\ pc = "pop"
    /\ tape' = tape \o <<Op("GetInboxPosition", inboxPosition),
                         Op("ReadInboxMessage", inboxPosition)>>
    /\ \E short \in BOOLEAN :
          IF short
          THEN pc' = "aborted" /\ fatal' = "PeekSliceBounds"
          ELSE pc' = "peeked" /\ UNCHANGED fatal
    /\ UNCHANGED <<positionWithinMessage, inboxPosition, mainLocals>>
    /\ UNCHANGED <<readVars, blobVars, runVars>>

\* WavmInbox.GetSequencerInboxPosition()
GetSequencerInboxPosition ==
    /\ pc = "peeked"
    /\ tape' = Append(tape, Op("GetInboxPosition", inboxPosition))
    /\ pc' = "numbered"
    /\ UNCHANGED <<positionWithinMessage, inboxPosition, fatal, mainLocals>>
    /\ UNCHANGED <<readVars, blobVars, runVars>>

\* WavmInbox.GetPositionWithinMessage()
GetPositionWithinMessage ==
    /\ pc \in {"peeked", "numbered"}
    /\ tape' = Append(tape, Op("GetPositionWithinMessage", positionWithinMessage))
    /\ pc' = "located"
    /\ UNCHANGED <<positionWithinMessage, inboxPosition, fatal, mainLocals>>
    /\ UNCHANGED <<readVars, blobVars, runVars>>

\* PreimageDASReader.GetByHash(ctx, hash), the reader handed over when the
\* chain has a data availability committee: dastree.Content asks its oracle
\* for the preimage of hash
GetByHash ==
    /\ pc = "located"
    /\ "DAS" \in {daProviders[k] : k \in 1..Len(daProviders)}
    /\ Callbacks < MaxCallbacks
    /\ \E hash \in 0..MaxHash :
          tape' = Append(tape, Op("ResolveTypedPreimage", hash))
    /\ pc' = "decoded"
    /\ UNCHANGED <<positionWithinMessage, inboxPosition, fatal, mainLocals>>
    /\ UNCHANGED <<readVars, blobVars, runVars>>

\* the lists of between lo and hi hashes
HashSeqs(lo, hi) == UNION {[1..n -> 0..MaxHash] : n \in lo..hi}

\* the Go run-time panics that end Read, and main with it: the divisions by
\* squareSize and odsSize, rowRoots[i], shares[0], share[29:]
ReadPanics ==
    {"DivideByZeroSquareSize", "DivideByZeroOdsSize", "RowRootsIndex",
     "NoShares", "ShareSlice"}

\* PreimageCelestiaReader.Read(ctx, blobPointer), the reader handed over when
\* the chain has Celestia DA, seen from main: tree.MerkleTreeContent asks the
\* oracle for the data root, tree.NmtContent for the root of each row read;
\* Read then returns to the pop, its blob or its error, or ends main in one
\* of its panics, a division by zero coming before any row is read.  Its
\* steps between the oracle operations are those of SpecRead.
Read ==
    /\ pc = "located"
    /\ "Celestia" \in {daProviders[k] : k \in 1..Len(daProviders)}
    /\ \E roots \in HashSeqs(1, MaxCallbacks - Callbacks) :
          /\ tape' = tape \o [k \in 1..Len(roots) |->
                                 Op("ResolveTypedPreimage", roots[k])]
          /\ \/ pc' = "decoded" /\ UNCHANGED fatal
             \/ /\ pc' = "aborted"
                /\ fatal' \in ReadPanics
                /\ fatal' \in {"DivideByZeroSquareSize", "DivideByZeroOdsSize"}
                      => Len(roots) = 1
    /\ UNCHANGED <<positionWithinMessage, inboxPosition, mainLocals>>
    /\ UNCHANGED <<readVars, blobVars, runVars>>

\* BlobPreimageReader.GetBlobs(ctx, batchBlockHash, versionedHashes), the
\* reader handed over on every path, seen from main: the oracle is asked for
\* each hash in list order, up to the first it refuses or answers with
\* another length than a blob's; the blobs or the error go back to the pop.
\* Its steps are those of SpecBlobs.
GetBlobs ==
    /\ pc = "located"
    /\ \E hashes \in HashSeqs(0, MaxCallbacks - Callbacks) :
          tape' = tape \o [k \in 1..Len(hashes) |-> Op("ResolveTypedPreimage", hashes[k])]
    /\ pc' = "decoded"
    /\ UNCHANGED <<positionWithinMessage, inboxPosition, fatal, mainLocals>>
    /\ UNCHANGED <<readVars, blobVars, runVars>>

\* what the batch fetcher handed to ParseIncomingL1Message may be asked:
\* nothing, or one batch
BatchFetches == {<<>>} \cup {<<batchNum>> : batchNum \in 0..MaxBatch}

\* WavmInbox.ReadDelayedInbox(seqNum): reads the delayed message and parses
\* it, the parser asking for the batches of fetched
ReadDelayedInbox ==
    /\ pc \in {"located", "decoded"}
    /\ \E fetched \in BatchFetches :
          /\ Callbacks + Len(fetched) <= MaxCallbacks
          /\ tape' = tape \o <<Op("ReadDelayedInboxMessage", delayedMessagesRead)>>
                       \o [k \in 1..Len(fetched) |-> Op("ReadInboxMessage", fetched[k])]
    /\ pc' = "merged"
    /\ UNCHANGED <<positionWithinMessage, inboxPosition, fatal, mainLocals>>
    /\ UNCHANGED <<readVars, blobVars, runVars>>

\* WavmInbox.AdvanceSequencerInbox(), called when the batch is exhausted
AdvanceSequencerInbox ==
    /\ pc \in {"located", "decoded", "merged"}
    /\ tape' = Append(tape, Op("AdvanceInboxMessage", 0))
    /\ inboxPosition' = inboxPosition + 1
    /\ pc' = "advanced"
    /\ UNCHANGED <<positionWithinMessage, fatal, mainLocals>>
    /\ UNCHANGED <<readVars, blobVars, runVars>>

\* WavmInbox.SetPositionWithinMessage(pos): pos is 0 after the cursor
\* advanced, and one past the segment emitted otherwise
SetPositionWithinMessage ==
    /\ pc \in {"located", "decoded", "merged", "advanced"}
    /\ positionWithinMessage' = IF pc = "advanced" THEN 0 ELSE positionWithinMessage + 1
    /\ tape' = Append(tape, Op("SetPositionWithinMessage", positionWithinMessage'))
    /\ pc' = "emitted"
    /\ UNCHANGED <<inboxPosition, fatal, mainLocals>>
    /\ UNCHANGED <<readVars, blobVars, runVars>>

\* the delayed messages the pop has read
DelayedRead ==
    Cardinality({k \in 1..Len(tape) : tape[k].op = "ReadDelayedInboxMessage"})

\* message, err := inboxMultiplexer.Pop(ctx) returns: an error at any point
\* after the peek, which main panics on, or the message emitted
Pop ==
    /\ \/ /\ pc \in PopStages
          /\ pc' = "aborted" /\ fatal' = "InboxMultiplexer"
          /\ UNCHANGED message
       \/ /\ pc = "emitted"
          /\ message' = [DelayedMessagesRead |-> delayedMessagesRead + DelayedRead]
          /\ pc' = IF path = "normal" THEN "produce" ELSE "init"
          /\ UNCHANGED fatal
    /\ UNCHANGED <<tape, positionWithinMessage, inboxPosition, lastBlockHash,
                   lastBlockHeader, lastBlockStateRoot, arbChainParams,
                   delayedMessagesRead, keysetValidationMode, daProviders,
                   path, newBlock>>
    /\ UNCHANGED <<readVars, blobVars, runVars>>

\* if !header.Number.IsUint64() || header.Number.Uint64() != num; the numbers
\* drawn here all fit 64 bits
WrongBlockNumber(number, num) == number # num

\* WavmChainContext.GetHeader(hash, num), called by the block producer:
\* getBlockHeaderByHash(hash), then the check of the header's number. The
\* preimage of lastBlockHash was resolved and parsed when main started, so
\* only another hash can fail there.
ChainContextGetHeader ==
    /\ pc = "produce"
    /\ Callbacks < MaxCallbacks
    /\ \E hash \in 0..MaxHash :
          /\ tape' = Append(tape, Op("ResolveTypedPreimage", hash))
          /\ \/ /\ hash # lastBlockHash
                /\ pc' = "aborted"
                /\ fatal' \in {"ChainContextResolvePreimage", "ChainContextParseHeader"}
             \/ \E number \in 0..MaxBlockNumber, num \in 0..MaxBlockNumber :
                   IF WrongBlockNumber(number, num)
                   THEN pc' = "aborted" /\ fatal' = "HeaderNumberMismatch"
                   ELSE UNCHANGED <<pc, fatal>>
    /\ UNCHANGED <<positionWithinMessage, inboxPosition, lastBlockHash,
                   lastBlockHeader, lastBlockStateRoot, arbChainParams,
                   delayedMessagesRead, keysetValidationMode, daProviders,
                   message, path, newBlock>>
    /\ UNCHANGED <<readVars, blobVars, runVars>>

\* batchFetcher(batchNum), called by the block producer
BatchFetcher ==
    /\ pc = "produce"
    /\ Callbacks < MaxCallbacks
    /\ \E batchNum \in 0..MaxBatch :
          tape' = Append(tape, Op("ReadInboxMessage", batchNum))
    /\ UNCHANGED <<pc, positionWithinMessage, inboxPosition, lastBlockHash,
                   lastBlockHeader, lastBlockStateRoot, arbChainParams,
                   delayedMessagesRead, keysetValidationMode, daProviders,
                   message, path, newBlock, fatal>>
    /\ UNCHANGED <<readVars, blobVars, runVars>>

\* arbos.ProduceBlock(message.Message, message.DelayedMessagesRead, ...)
\* returns: an error, which main panics on, or the new block
ProduceBlock ==
    /\ pc = "produce"
    /\ \/ /\ pc' = "aborted" /\ fatal' = "ProduceBlock"
          /\ UNCHANGED newBlock
       \/ /\ \E h \in 1..MaxHash, v \in 0..MaxVersion, r \in 0..MaxHash :
                newBlock' = [Hash |-> h, ArbOSFormatVersion |-> v, SendRoot |-> r]
          /\ pc' = "final"
          /\ UNCHANGED fatal
    /\ UNCHANGED <<tape, positionWithinMessage, inboxPosition, lastBlockHash,
                   lastBlockHeader, lastBlockStateRoot, arbChainParams,
                   delayedMessagesRead, keysetValidationMode, daProviders,
                   message, path>>
    /\ UNCHANGED <<readVars, blobVars, runVars>>

\* ParseInitMessage, the chain config, InitializeArbosState, MakeGenesisBlock
MakeGenesisBlock ==
    /\ pc = "init"
    /\ \/ /\ pc' = "aborted" /\ fatal' = "ParseInitMessage"
          /\ UNCHANGED newBlock
       \/ /\ pc' = "aborted" /\ fatal' = "GetChainConfig"
          /\ UNCHANGED newBlock
       \/ /\ pc' = "aborted" /\ fatal' = "InitializeArbosState"
          /\ UNCHANGED newBlock
       \/ /\ \E h \in 1..MaxHash, v \in 0..MaxVersion, r \in 0..MaxHash :
                newBlock' = [Hash |-> h, ArbOSFormatVersion |-> v, SendRoot |-> r]
          /\ pc' = "final"
          /\ UNCHANGED fatal
    /\ UNCHANGED <<tape, positionWithinMessage, inboxPosition, lastBlockHash,
                   lastBlockHeader, lastBlockStateRoot, arbChainParams,
                   delayedMessagesRead, keysetValidationMode, daProviders,
                   message, path>>
    /\ UNCHANGED <<readVars, blobVars, runVars>>

\* the check of ArbOSFormatVersion, then wavmio.SetLastBlockHash(newBlockHash)
SetLastBlockHash ==
    /\ pc = "final"
    /\ IF VersionZero(newBlock)
       THEN pc' = "aborted" /\ fatal' = "ArbOSVersionZero" /\ UNCHANGED tape
       ELSE /\ tape' = Append(tape, Op("SetLastBlockHash", newBlock.Hash))
            /\ pc' = "sendRoot"
            /\ UNCHANGED fatal
    /\ UNCHANGED <<positionWithinMessage, inboxPosition, lastBlockHash,
                   lastBlockHeader, lastBlockStateRoot, arbChainParams,
                   delayedMessagesRead, keysetValidationMode, daProviders,
                   message, path, newBlock>>
    /\ UNCHANGED <<readVars, blobVars, runVars>>

\* wavmio.SetSendRoot(extraInfo.SendRoot)
SetSendRoot ==
    /\ pc = "sendRoot"
    /\ tape' = Append(tape, Op("SetSendRoot", newBlock.SendRoot))
    /\ pc' = "done"
    /\ UNCHANGED <<positionWithinMessage, inboxPosition, lastBlockHash,
                   lastBlockHeader, lastBlockStateRoot, arbChainParams,
                   delayedMessagesRead, keysetValidationMode, daProviders,
                   message, path, newBlock, fatal>>
    /\ UNCHANGED <<readVars, blobVars, runVars>>

Next ==
    \/ GetLastBlockHash
    \/ GetBlockHeaderByHash
    \/ OpenStateDb
    \/ LoadChainConfig
    \/ ReadMessage
    \/ PeekSequencerInbox
    \/ GetSequencerInboxPosition
    \/ GetPositionWithinMessage
    \/ GetByHash
    \/ Read
    \/ GetBlobs
    \/ ReadDelayedInbox
    \/ AdvanceSequencerInbox
    \/ SetPositionWithinMessage
    \/ Pop
    \/ ChainContextGetHeader
    \/ BatchFetcher
    \/ ProduceBlock
    \/ MakeGenesisBlock
    \/ SetLastBlockHash
    \/ SetSendRoot

Spec == Init /\ [][Next]_vars

\* ------------------------------------- two runs of main against one tape
\* the state of main
Snapshot ==
    [pc |-> pc, tape |-> tape, positionWithinMessage |-> positionWithinMessage,
     inboxPosition |-> inboxPosition, lastBlockHash |-> lastBlockHash,
     lastBlockHeader |-> lastBlockHeader, lastBlockStateRoot |-> lastBlockStateRoot,
     arbChainParams |-> arbChainParams, delayedMessagesRead |-> delayedMessagesRead,
     keysetValidationMode |-> keysetValidationMode, daProviders |-> daProviders,
     message |-> message, path |-> path, newBlock |-> newBlock, fatal |-> fatal]

\* Two runs are compared under two assumptions on what is not main's code,
\* and on nothing else:
\*   (host)    what wavmio answers is a function of the question: the last
\*             block hash, the preimage of a hash, the inbox message of a
\*             number (spec 4.1);
\*   (callees) inboxMultiplexer.Pop, arbos.ProduceBlock, the ArbOS state and
\*             the genesis functions, whose code is not part of this program,
\*             are functions of their arguments and of what their calls back
\*             into main were answered so far (spec 4.7, 4.8, 9).
\* Each is stated below as "the same question has the same answer", the
\* question holding all that the answerer was given.  Where the second run
\* asks something the first did not (another argument, another answer from
\* main's cursor on the way) nothing is assumed and the second run is free.
\* Of main nothing is assumed: the arguments it passes, the values its
\* methods read and write, its branches, aborts and writes are compared.

\* what a call answered: the failure it ended in ("" if none) and its value
Answer(fails, s, value) == [fail |-> IF s.fatal \in fails THEN s.fatal ELSE "", val |-> value]

\* In the state s of main, has the call been made, with which arguments, and
\* what did it answer.
\* wavmio.GetLastBlockHash()
HashAsked(s) == s.pc # "start"

\* getBlockHeaderByHash(lastBlockHash)
HeaderAsked(s) == s.lastBlockHash # 0 /\ s.pc \notin {"start", "header"}

HeaderAnswer(s) == Answer({"ResolvePreimage", "ParseHeader"}, s, s.lastBlockHeader)

\* the state main opened: state.NewDeterministic(lastBlockStateRoot, db)
StateView(s) == NewDeterministic(s.lastBlockStateRoot)

StateDbAsked(s) ==
    /\ s.pc \notin {"start", "header", "statedb"}
    /\ s.fatal \notin {"ResolvePreimage", "ParseHeader"}

StateDbAnswer(s) == Answer({"OpenStateDb"}, s, Nil)

\* the chain config read from the ArbOS state through the state opened
ConfigAsked(s) == s.path = "normal" /\ s.pc # "config"

ConfigAnswer(s) == Answer(ConfigFails, s, s.arbChainParams)

\* how far two lists of operations agree
CommonPrefix(a, b) ==
    LET agree == {n \in 0..(IF Len(a) < Len(b) THEN Len(a) ELSE Len(b)) :
                     \A k \in 1..n : a[k] = b[k]}
    IN  CHOOSE n \in agree : \A m \in agree : m <= n

\* the operations whose recorded value is what main's cursor answered, not
\* what the callee asked for
CursorReads == {"GetInboxPosition", "GetPositionWithinMessage"}

\* The callee that made the calls mine is the callee that made the calls
\* theirs, given the same arguments: as long as it was answered the same,
\* it makes the same next call (and none where the other returned).  Where
\* the two lists part, they part in an answer of main's cursor.
SameCallee(mine, theirs) ==
    LET c == CommonPrefix(mine, theirs)
    IN  c < Len(mine) =>
            /\ c < Len(theirs)
            /\ mine[c + 1].op = theirs[c + 1].op
            /\ mine[c + 1].op \in CursorReads

\* is the k-th operation of calls made by the method that made the one before
\* it: a reader's further preimages, the batch read after the peek's position
\* or the batches fetched after a delayed message
Continues(calls, k) ==
    /\ k > 1
    /\ \/ /\ calls[k].op = "ResolveTypedPreimage"
          /\ calls[k - 1].op = "ResolveTypedPreimage"
       \/ /\ calls[k].op = "ReadInboxMessage"
          /\ calls[k - 1].op \in {"GetInboxPosition", "ReadDelayedInboxMessage",
                                  "ReadInboxMessage"}

\* A call still running in the second run, having made the calls mine, where
\* the first run's call made the calls theirs in all: a method of main the
\* callee called with the same question made the operations it made in the
\* first run, all of them (whole: the methods called may make several; over:
\* the operations of a method that has returned), and ended main if it
\* ended main (inside: the aborts inside such a method)
StillRunning(mine, theirs, inside, whole, over) ==
    \A m \in {mine}, t \in {theirs} :
    /\ SameCallee(m, t)
    /\ (whole /\ Len(m) < Len(t) /\ m = SubSeq(t, 1, Len(m)))
          => /\ ~Continues(t, Len(m) + 1)
             /\ t[Len(m) + 1].op \notin over
    /\ m = t => first.fatal \notin inside

\* A call that ended in the second run, having made the calls mine: answered
\* as in the first run, it ended after the same calls
EndedAlike(mine, theirs) ==
    \A m \in {mine}, t \in {theirs} :
    /\ SameCallee(m, t)
    /\ (Len(m) <= Len(t) /\ m = SubSeq(t, 1, Len(m))) => m = t

\* inboxMultiplexer.Pop(ctx), on the multiplexer built by
\* NewInboxMultiplexer(backend, delayedMessagesRead, daProviders,
\* keysetValidationMode)
PopStarted(s) == s.keysetValidationMode # "unset"

PopAsked(s) == PopStarted(s) /\ s.pc \notin ({"pop"} \cup PopStages)

PopArguments(s) == <<s.delayedMessagesRead, s.daProviders, s.keysetValidationMode>>

\* where on the tape of s the operation op is ({} if nowhere)
Place(s, op) == {k \in 1..Len(s.tape) : s.tape[k].op = op}

\* the operations the pop made through the backend and the readers: from its
\* peek to its write of the cursor
PopCalls(s) ==
    IF Place(s, "GetInboxPosition") = {} THEN <<>>
    ELSE SubSeq(s.tape, CHOOSE k \in Place(s, "GetInboxPosition") : TRUE,
                IF Place(s, "SetPositionWithinMessage") = {} THEN Len(s.tape)
                ELSE CHOOSE k \in Place(s, "SetPositionWithinMessage") : TRUE)

\* the aborts inside a method the pop called: the peek, the Celestia reader
PopPanics == {"PeekSliceBounds"} \cup ReadPanics

\* the aborts inside the call
PopFails == {"InboxMultiplexer"} \cup PopPanics

PopAnswer(s) == Answer(PopFails, s, s.message)

\* arbos.ProduceBlock(message.Message, message.DelayedMessagesRead,
\* lastBlockHeader, statedb, chainContext, chainConfig, batchFetcher)
ProduceStarted(s) == s.path = "normal" /\ s.message # Nil

ProduceAsked(s) == ProduceStarted(s) /\ s.pc # "produce"

ProduceArguments(s) ==
    <<s.message, s.message.DelayedMessagesRead, s.lastBlockHeader, StateView(s),
      s.arbChainParams>>

\* the aborts inside a call the producer made back: of a header it asked for
ProducePanics ==
    {"ChainContextResolvePreimage", "ChainContextParseHeader", "HeaderNumberMismatch"}

\* the aborts inside the call
ProduceFails == {"ProduceBlock"} \cup ProducePanics

IsCallback(e) == e.op \in {"ResolveTypedPreimage", "ReadInboxMessage"}

\* the calls the producer made back into main: chainContext.GetHeader and
\* batchFetcher, in order
ProduceCalls(s) ==
    IF Place(s, "SetPositionWithinMessage") = {} THEN <<>>
    ELSE SelectSeq(SubSeq(s.tape,
                          (CHOOSE k \in Place(s, "SetPositionWithinMessage") : TRUE) + 1,
                          Len(s.tape)),
                   IsCallback)

ProduceAnswer(s) == Answer(ProduceFails, s, s.newBlock)

\* ParseInitMessage ... MakeGenesisBlock on the popped message
GenesisAsked(s) == s.path = "genesis" /\ s.message # Nil /\ s.pc # "init"

GenesisAnswer(s) ==
    Answer({"ParseInitMessage", "GetChainConfig", "InitializeArbosState"}, s, s.newBlock)

\* The second run is answered by the host and the callees that answered the
\* first: the same question has the same answer.
SameOracle ==
    run = 2 =>
        \A s \in {Snapshot} :
        /\ (HashAsked(s) /\ HashAsked(first))
              => s.lastBlockHash = first.lastBlockHash
        /\ (HeaderAsked(s) /\ HeaderAsked(first) /\ s.lastBlockHash = first.lastBlockHash)
              => HeaderAnswer(s) = HeaderAnswer(first)
        /\ (StateDbAsked(s) /\ StateDbAsked(first) /\ StateView(s) = StateView(first))
              => StateDbAnswer(s) = StateDbAnswer(first)
        /\ (ConfigAsked(s) /\ ConfigAsked(first) /\ StateView(s) = StateView(first)
            /\ StateView(s).Deterministic)
              => ConfigAnswer(s) = ConfigAnswer(first)
        /\ (PopStarted(s) /\ PopStarted(first) /\ PopArguments(s) = PopArguments(first))
              => IF PopAsked(s)
                 THEN /\ EndedAlike(PopCalls(s), PopCalls(first))
                      /\ PopCalls(s) = PopCalls(first) => PopAnswer(s) = PopAnswer(first)
                 ELSE StillRunning(PopCalls(s), PopCalls(first), PopPanics, TRUE,
                                   IF s.pc \in {"pop", "peeked", "numbered", "located"}
                                   THEN {} ELSE {"ResolveTypedPreimage"})
        /\ (ProduceStarted(s) /\ ProduceStarted(first)
            /\ ProduceArguments(s) = ProduceArguments(first)
            /\ StateView(s).Deterministic)
              => IF ProduceAsked(s)
                 THEN /\ EndedAlike(ProduceCalls(s), ProduceCalls(first))
                      /\ ProduceCalls(s) = ProduceCalls(first)
                            => ProduceAnswer(s) = ProduceAnswer(first)
                 ELSE StillRunning(ProduceCalls(s), ProduceCalls(first), ProducePanics,
                                   FALSE, {})
        /\ (GenesisAsked(s) /\ GenesisAsked(first) /\ s.message = first.message)
              => GenesisAnswer(s) = GenesisAnswer(first)

\* one step of main, answered by the oracle of the first run
Replay == Next /\ SameOracle'

\* main is started again on the tape the first run started on
Rerun ==
    /\ run = 1
    /\ pc \in {"done", "aborted"}
    /\ first' = Snapshot
    /\ run' = 2
    /\ pc' = "start"
    /\ tape' = <<>>
    /\ positionWithinMessage' = position0
    /\ inboxPosition' = 0
    /\ lastBlockHash' = 0
    /\ lastBlockHeader' = Nil
    /\ lastBlockStateRoot' = 0
    /\ arbChainParams' = Nil
    /\ delayedMessagesRead' = 0
    /\ keysetValidationMode' = "unset"
    /\ daProviders' = <<>>
    /\ message' = Nil
    /\ path' = "none"
    /\ newBlock' = Nil
    /\ fatal' = ""
    /\ UNCHANGED position0
    /\ UNCHANGED <<readVars, blobVars>>

NextTwoRuns == Replay \/ Rerun

SpecTwoRuns == Init /\ [][NextTwoRuns]_vars

\* ------------------------------------------ BlobPreimageReader.GetBlobs
\* A byte string as runs of equal bytes: <<[n, b], ...>> is n bytes b, then
\* the bytes of the next run.
Bytes(n, b) == IF n = 0 THEN <<>> ELSE <<[n |-> n, b |-> b]>>

\* len(bs)
RECURSIVE ByteLen(_)
ByteLen(bs) == IF bs = <<>> THEN 0 ELSE Head(bs).n + ByteLen(Tail(bs))

\* bs[:n]
RECURSIVE Take(_, _)
Take(bs, n) ==
    IF n = 0 \/ bs = <<>> THEN <<>>
    ELSE IF Head(bs).n <= n THEN <<Head(bs)>> \o Take(Tail(bs), n - Head(bs).n)
    ELSE Bytes(n, Head(bs).b)

\* bs[n:]
RECURSIVE Drop(_, _)
Drop(bs, n) ==
    IF n = 0 \/ bs = <<>> THEN bs
    ELSE IF Head(bs).n <= n THEN Drop(Tail(bs), n - Head(bs).n)
    ELSE Bytes(Head(bs).n - n, Head(bs).b) \o Tail(bs)

\* dst after copy(dst, src): the first min(len(dst), len(src)) bytes of src,
\* then what is left of dst
Copy(dst, src) ==
    LET n == IF ByteLen(dst) < ByteLen(src) THEN ByteLen(dst) ELSE ByteLen(src)
    IN  Take(src, n) \o Drop(dst, n)

\* var blob kzg4844.Blob
ZeroBlob == Bytes(BlobLength, 0)

\* mutant: only a short preimage is refused
BadBlobLength_ShortOnly(preimage, blob) == ByteLen(preimage) < ByteLen(blob)

\* if len(preimage) != len(blob)
BadBlobLength(preimage, blob) == ByteLen(preimage) # ByteLen(blob)

\* Lengths the preimage of a versioned hash may have.
PreimageLens == {BlobLength - 1, BlobLength, BlobLength + 1}

\* What wavmio.ResolveTypedPreimage may answer for the hash h: an error, or
\* the preimage, whose bytes here are all h so that the preimages of
\* different hashes differ.
PreimageAnswers(h) ==
    {[err |-> TRUE, bytes |-> <<>>]}
    \cup {[err |-> FALSE, bytes |-> Bytes(n, h)] : n \in PreimageLens}

HashLists == UNION {[1..n -> 1..MaxBlobHash] : n \in 0..MaxBlobHashes}

InitBlobs ==
    /\ ReadIdle
    /\ MainIdle
    /\ bpc = "loop"
    /\ versionedHashes \in HashLists
    /\ preimages \in {f \in [1..MaxBlobHash -> UNION {PreimageAnswers(h) : h \in 1..MaxBlobHash}] :
                         \A h \in 1..MaxBlobHash : f[h] \in PreimageAnswers(h)}
    /\ blobs = <<>>
    /\ resolved = <<>>
    /\ ret = Nil

\* one iteration of the loop over versionedHashes
ResolveBlob ==
    /\ bpc = "loop"
    /\ Len(resolved) < Len(versionedHashes)
    /\ LET h == versionedHashes[Len(resolved) + 1]
           blob == ZeroBlob
           preimage == preimages[h]
       IN  /\ resolved' = Append(resolved, h)
           /\ IF preimage.err
              THEN /\ bpc' = "done"
                   /\ ret' = [blobs |-> <<>>, err |-> "ResolveTypedPreimage"]
                   /\ UNCHANGED blobs
              ELSE IF BadBlobLength(preimage.bytes, blob)
              THEN /\ bpc' = "done"
                   /\ ret' = [blobs |-> <<>>, err |-> "BadBlobLength"]
                   /\ UNCHANGED blobs
              ELSE /\ blobs' = Append(blobs, Copy(blob, preimage.bytes))
                   /\ UNCHANGED <<bpc, ret>>
    /\ UNCHANGED <<versionedHashes, preimages>>
    /\ UNCHANGED <<readVars, mainVars, runVars>>

\* return blobs, nil
ReturnBlobs ==
    /\ bpc = "loop"
    /\ Len(resolved) = Len(versionedHashes)
    /\ bpc' = "done"
    /\ ret' = [blobs |-> blobs, err |-> ""]
    /\ UNCHANGED <<versionedHashes, preimages, blobs, resolved>>
    /\ UNCHANGED <<readVars, mainVars, runVars>>

NextBlobs == ResolveBlob \/ ReturnBlobs

SpecBlobs == InitBlobs /\ [][NextBlobs]_vars

\* ================================================================ claims
\* ------------------------------------------------ vocabulary of the claims
\* the failures of Read that come after its index checks
AfterIndexChecks ==
    {"", "RowRootsIndex", "NmtContent", "RowLength", "StartAfterEnd",
     "NoShares", "ShortShare", "ShareSlice", "LengthMismatch"}

\* Read has passed every index check
PastIndexChecks ==
    \/ rpc \in {"rows", "deframe"}
    \/ rpc = "done" /\ err \in AfterIndexChecks

\* Read has resolved the data root and evaluated the index arithmetic
IndicesResolved == rpc \in {"rows", "deframe", "done"} /\ err # "MerkleTreeContent"

\* Read has left the row loop normally
RowsSelected ==
    \/ rpc = "deframe"
    \/ rpc = "done" /\ err \in {"", "NoShares", "ShortShare", "ShareSlice", "LengthMismatch"}

\* Read has reached the comparison of sequenceLength with len(data)
LengthCompared == rpc = "done" /\ err \in {"", "LengthMismatch"}

\* the square coordinates a share was resolved at
ShareAt(share) == <<share[1], share[2]>>

\* the sequence length a share's header states
StatedLength(share) ==
    CHOOSE n \in 0..MaxSeqLen :
        PutBigEndianUint32(n) = SubSeq(share, NamespaceSize * 2 + 2, NamespaceSize * 2 + 5)

\* number of payload bytes of a list of shares
RECURSIVE PayloadBytes(_, _)
PayloadBytes(ss, k) ==
    IF k > Len(ss) THEN 0
    ELSE (Len(ss[k]) - ExtraNamespace - NamespaceSize - (IF k = 1 THEN 5 ELSE 1))
         + PayloadBytes(ss, k + 1)

\* ---------------------------------------------------------------- C1
\* C1: for a pointer with shares_length = first_row_shares + 1 into a square
\* of even width, whose first row holds at least one of its shares and whose
\* next row exists, Read passes its
\* index checks with end_row = start_row + 1 and end_index = 0, and selects the
\* first_row_shares shares of row start_row followed by the one share at
\* index 0 of row start_row + 1.
C1_CrossesIntoNextRow ==
    (/\ IndicesResolved
     /\ odsSize >= 1
     /\ startIndex < odsSize
     /\ squareSize = 2 * odsSize
     /\ startRow + 1 < squareSize
     /\ blobPointer.SharesLength = FirstRowShares(startIndex, odsSize) + 1)
    => /\ PastIndexChecks
       /\ endRow = startRow + 1
       /\ endIndex = 0
       /\ RowsSelected =>
            /\ Len(shares) = blobPointer.SharesLength
            /\ \A k \in 1..(Len(shares) - 1) :
                   ShareAt(shares[k]) = <<startRow, startIndex + k - 1>>
            /\ ShareAt(shares[Len(shares)]) = <<startRow + 1, 0>>

\* ---------------------------------------------------------------- C2
\* C2: whenever Read succeeds the returned blob is as long as the sequence
\* length stated in the first selected share; once Read compares the two
\* lengths it fails exactly when the stated length is strictly greater than
\* the length of the concatenated payload, and a stated length equal to it
\* returns the whole concatenation.
C2_BlobLengthIsSequenceLength ==
    /\ (rpc = "done" /\ result = "ok") => Len(data) = StatedLength(shares[1])
    /\ LengthCompared =>
          LET stated == StatedLength(shares[1])
              total == PayloadBytes(shares, 1)
          IN  /\ result = "error" <=> stated > total
              /\ result = "ok" <=> stated <= total
              /\ stated = total => (result = "ok" /\ data = Payload(shares))
              /\ result = "ok" => data = SubSeq(Payload(shares), 1, stated)

\* a blob of two shares or more whose stated length is the payload's, returned whole
C2_Witness ==
    /\ rpc = "done" /\ result = "ok"
    /\ Len(shares) >= 2
    /\ Len(data) >= 1
    /\ Len(data) = PayloadBytes(shares, 1)

\* ---------------------------------------------------------------- C8
\* C8 as stated: with shares_length = 0 Read ends in a returned BadPointer
\* error (the shares-length or the start-index error) whatever the other
\* fields and the data root, with no NmtContent call.
C8_AlwaysBadPointer ==
    (blobPointer.SharesLength = 0 /\ rpc = "done")
    => /\ result = "error"
       /\ err \in {"SharesLength", "StartIndex"}
       /\ nmtCalls = 0

\* C8 as amended: with shares_length = 0 Read never succeeds, never enters
\* the row loop and makes no NmtContent call; it ends in the tree's error when
\* the data root does not resolve, in the division-by-zero panic when the root
\* has fewer than two leaves, in the start-index error when
\* start_index > ods_size, and in the shares-length error otherwise.
C8_ZeroSharesLengthFails ==
    (rpc # "idle" /\ blobPointer.SharesLength = 0)
    => /\ nmtCalls = 0
       /\ rows = <<>>
       /\ rpc \in {"root", "index", "done"}
       /\ result # "ok"
       /\ rpc = "done" =>
            IF leaves = 0 THEN result = "error" /\ err = "MerkleTreeContent"
            ELSE IF leaves \div 2 = 0
                 THEN result = "panic" /\ err = "DivideByZeroSquareSize"
            ELSE IF blobPointer.Start % (leaves \div 2) > (leaves \div 2) \div 2
                 THEN result = "error" /\ err = "StartIndex"
            ELSE result = "error" /\ err = "SharesLength"

\* a pointer with shares_length = 0 and a nonzero start rejected by the
\* shares-length check
C8_Witness ==
    /\ rpc = "done"
    /\ blobPointer.SharesLength = 0
    /\ blobPointer.Start > 0
    /\ squareSize >= 2
    /\ err = "SharesLength"

\* ---------------------------------------------------------------- C9
\* C9: a single-row pointer with shares_length >= 1 that ends on the last
\* original-data share of its row (start_index + shares_length = ods_size)
\* passes every index check with end_row = start_row and
\* end_index = ods_size - 1; if its row resolves to at least ods_size shares
\* Read leaves the loop after that one row, having selected exactly the
\* shares_length shares ods_row[start_index .. ods_size).
C9_EndsOnLastOdsShare ==
    (/\ IndicesResolved
     /\ squareSize >= 1
     /\ blobPointer.SharesLength >= 1
     /\ startIndex + blobPointer.SharesLength = odsSize)
    => /\ PastIndexChecks
       /\ endRow = startRow
       /\ endIndex = odsSize - 1
       /\ nmtCalls <= 1
       /\ (rpc = "done" /\ rows # <<>> /\ rows[1] >= odsSize) => RowsSelected
       /\ RowsSelected =>
            /\ nmtCalls = 1
            /\ Len(rows) = 1
            /\ Len(shares) = blobPointer.SharesLength
            /\ \A k \in 1..Len(shares) :
                   ShareAt(shares[k]) = <<startRow, startIndex + k - 1>>

\* such a pointer, not starting at the head of its row, its shares selected
C9_Witness ==
    /\ RowsSelected
    /\ endRow = startRow
    /\ startIndex >= 1
    /\ blobPointer.SharesLength >= 1
    /\ startIndex + blobPointer.SharesLength = odsSize
    /\ Len(shares) = blobPointer.SharesLength

\* --------------------------------------------------------------- C10
\* C10: whenever Read is past its index checks, start_index and end_index are
\* both strictly less than ods_size.
C10_IndicesBelowOdsSize ==
    PastIndexChecks => (startIndex < odsSize /\ endIndex < odsSize)

\* --------------------------------------------------------------- C11
\* C11: for every data root whose leaf count is odd Read fails: it never
\* returns a blob.
C11_OddLeavesRejected ==
    (rpc = "done" /\ leaves % 2 = 1) => (result # "ok" /\ data = <<>>)

\* --------------------------------------------------------------- C14
\* C14: a pointer into a square with ods_size >= 1 that has
\* start_index <= ods_size, shares_length > first_row_shares,
\* shares_length % square_size # 0 and
\* (shares_length - first_row_shares) % ods_size = 0 ends Read in the
\* partial-row error, with no row resolved and no NmtContent call.
C14_PartialRowErrorReachable ==
    (/\ IndicesResolved
     /\ odsSize >= 1
     /\ startIndex <= odsSize
     /\ blobPointer.SharesLength > FirstRowShares(startIndex, odsSize)
     /\ blobPointer.SharesLength % squareSize # 0
     /\ (blobPointer.SharesLength - FirstRowShares(startIndex, odsSize)) % odsSize = 0)
    => /\ rpc = "done"
       /\ result = "error"
       /\ err = "PartialRow"
       /\ nmtCalls = 0
       /\ rows = <<>>
       /\ shares = <<>>
       /\ data = <<>>

\* the claim's example: square_size 4, ods_size 2, start_index 0,
\* shares_length 6, ended by the partial-row error
C14_Witness ==
    /\ rpc = "done"
    /\ err = "PartialRow"
    /\ squareSize = 4 /\ odsSize = 2
    /\ startIndex = 0
    /\ blobPointer.SharesLength = 6

\* --------------------------------------------------------------- C15
\* C15: whenever Read, on a square of even width under an even number of
\* leaves and a pointer with start_index < ods_size, has left the row loop
\* (every touched row held at least ods_size shares), the number of shares
\* it selected equals shares_length.
C15_SelectsSharesLength ==
    (/\ RowsSelected
     /\ leaves % 2 = 0
     /\ squareSize = 2 * odsSize
     /\ startIndex < odsSize)
    => Len(shares) = blobPointer.SharesLength

\* --------------------------------------------------------------- C16
\* C16: Read never divides by zero and never indexes out of range: it never
\* panics, and whenever it is past its index checks square_size is nonzero
\* and start_row <= i <= end_row < square_size.
C16_NoPanic ==
    /\ result # "panic"
    /\ PastIndexChecks =>
          /\ squareSize > 0
          /\ startRow <= i /\ i <= endRow
          /\ endRow < squareSize

\* --------------------------------------------------------------- C12
\* the oracle answers the hash h with a preimage of BlobLength bytes
GoodPreimage(h) == ~preimages[h].err /\ ByteLen(preimages[h].bytes) = BlobLength

\* C12: GetBlobs resolves the hashes in list order; if every hash of the
\* list resolves to a preimage of 131072 bytes it returns one blob per hash,
\* in list order, each equal to the preimage of its hash, and no error;
\* otherwise it returns an error and no blobs, having resolved the hashes up
\* to the first one whose resolution fails or whose preimage has another
\* length and no later one; nothing is returned before that.
C12_BlobsInOrderOrError ==
    LET n == Len(resolved) IN
    /\ bpc = "loop" =>
          /\ ret = Nil
          /\ resolved = SubSeq(versionedHashes, 1, n)
          /\ \A k \in 1..n : GoodPreimage(versionedHashes[k])
    /\ bpc = "done" =>
          /\ resolved = SubSeq(versionedHashes, 1, n)
          /\ \A k \in 1..(n - 1) : GoodPreimage(versionedHashes[k])
          /\ IF \A k \in 1..Len(versionedHashes) : GoodPreimage(versionedHashes[k])
             THEN /\ ret.err = ""
                  /\ n = Len(versionedHashes)
                  /\ Len(ret.blobs) = Len(versionedHashes)
                  /\ \A k \in 1..Len(versionedHashes) :
                        /\ ret.blobs[k] = preimages[versionedHashes[k]].bytes
                        /\ ByteLen(ret.blobs[k]) = BlobLength
             ELSE /\ ret.err # ""
                  /\ ret.blobs = <<>>
                  /\ n >= 1
                  /\ ~GoodPreimage(versionedHashes[n])
                  /\ ret.err = "BadBlobLength" <=> ~preimages[versionedHashes[n]].err

\* a list of three hashes whose second resolves to 131071 bytes: the error
\* is returned after two resolutions
C12_Witness ==
    /\ bpc = "done"
    /\ Len(versionedHashes) = 3
    /\ Len(resolved) = 2
    /\ versionedHashes[1] # versionedHashes[2]
    /\ ByteLen(preimages[versionedHashes[2]].bytes) = BlobLength - 1
    /\ ret = [blobs |-> <<>>, err |-> "BadBlobLength"]

\* the operations of the tape so far
TapeOps == {tape[k].op : k \in 1..Len(tape)}

\* how often an operation is on the tape
Count(o) == Cardinality({k \in 1..Len(tape) : tape[k].op = o})

\* the cursor, sequencer-inbox and delayed-inbox operations
InboxOps ==
    {"GetPositionWithinMessage", "SetPositionWithinMessage", "GetInboxPosition",
     "AdvanceInboxMessage", "ReadInboxMessage", "ReadDelayedInboxMessage"}

\* the peeks of the sequencer inbox: a read of the batch under the cursor
Peeks ==
    {k \in 2..Len(tape) : /\ tape[k].op = "ReadInboxMessage"
                          /\ tape[k - 1].op = "GetInboxPosition"}

\* both DA flags of the chain params handed to readMessage are set
BothFlags ==
    /\ arbChainParams # Nil
    /\ arbChainParams.DataAvailabilityCommittee
    /\ arbChainParams.CelestiaDA

\* readMessage has run up to or past its check of the DA flags
FlagsChecked == keysetValidationMode # "unset" \/ fatal = "ConflictingDA"

C3_OnlyLastBlockHashRead ==
    (BothFlags /\ pc # "readMessage")
    => /\ pc = "aborted" /\ fatal = "ConflictingDA"
       /\ TapeOps = {"GetLastBlockHash"}

\* C3 as amended: with both DA flags set main aborts with ConflictingDA
\* before any cursor, sequencer-inbox or delayed-inbox operation; the tape then
\* holds the one read of last_block_hash followed only by resolutions of
\* keccak preimages (the prior header, the ArbOS state holding the chain
\* config), which have happened.
C3_ConflictingDAAbortsBeforeInbox ==
    (BothFlags /\ pc # "readMessage")
    => /\ pc = "aborted" /\ fatal = "ConflictingDA"
       /\ TapeOps \cap InboxOps = {}
       /\ TapeOps = {"GetLastBlockHash", "ResolveTypedPreimage"}
       /\ tape[1].op = "GetLastBlockHash" /\ Count("GetLastBlockHash") = 1
       /\ keysetValidationMode = "unset" /\ message = Nil /\ newBlock = Nil

\* a run aborted by the conflicting flags
C3_Witness == pc = "aborted" /\ fatal = "ConflictingDA" /\ BothFlags

\* ---------------------------------------------------------------- C4
\* C4 as stated: a completed run had exactly one of the two DA flags set.
C4_ExactlyOneDA ==
    pc = "done" =>
        (arbChainParams.DataAvailabilityCommittee # arbChainParams.CelestiaDA)

\* C4 as amended: a run that got past readMessage's check, so every completed
\* run, never had both DA flags set; it may have had neither, and on the
\* genesis path it always has neither.
C4_NeverBothDA ==
    /\ (pc \in {"pop", "produce", "init", "final", "sendRoot", "done"} \cup PopStages)
          => /\ arbChainParams # Nil
             /\ ~(arbChainParams.DataAvailabilityCommittee /\ arbChainParams.CelestiaDA)
             /\ Len(daProviders) <= 2
    /\ (pc = "done" /\ path = "genesis")
          => /\ ~arbChainParams.DataAvailabilityCommittee
             /\ ~arbChainParams.CelestiaDA

\* a completed run of the normal path with Celestia alone enabled
C4_Witness ==
    /\ pc = "done" /\ path = "normal"
    /\ arbChainParams.CelestiaDA /\ ~arbChainParams.DataAvailabilityCommittee
    /\ daProviders = <<"Celestia", "Blob">>

\* ---------------------------------------------------------------- C5
\* C5: the keyset validation mode is DontValidate when the position within
\* the message read at entry to readMessage is greater than 0 and
\* PanicIfInvalid when it is 0; it is chosen before the one Pop, from the
\* first cursor operation of the run, whatever the pop then reads again, and
\* is never AssumeValid.
C5_KeysetModeFromPosition ==
    /\ keysetValidationMode \in {"unset", "DontValidate", "PanicIfInvalid"}
    /\ keysetValidationMode # "unset" =>
          \E k \in 1..Len(tape) :
             /\ tape[k].op = "GetPositionWithinMessage"
             /\ \A j \in 1..(k - 1) : tape[j].op \notin InboxOps
             /\ tape[k].val > 0 => keysetValidationMode = "DontValidate"
             /\ tape[k].val = 0 => keysetValidationMode = "PanicIfInvalid"
    /\ (pc \in ({"pop"} \cup PopStages) \/ message # Nil \/ "GetInboxPosition" \in TapeOps)
          => keysetValidationMode # "unset"
    /\ Cardinality(Peeks) <= 1
    /\ Count("SetPositionWithinMessage") <= 1

\* a completed run that resumed inside a batch
C5_Witness ==
    /\ pc = "done"
    /\ keysetValidationMode = "DontValidate"
    /\ \E k \in 1..Len(tape) :
          tape[k].op = "GetPositionWithinMessage" /\ tape[k].val = MaxPosition

\* ---------------------------------------------------------------- C6
\* C6: a run that ends done has written the new block hash and then the send
\* root, once each, as the last two tape operations, and its header's
\* ArbOSFormatVersion is nonzero; a run that aborts has written neither; the
\* only state with one write is the one between the two writes; a header with
\* ArbOSFormatVersion = 0 aborts with no write.
C6_NoPartialOutput ==
    LET n == Len(tape) IN
    /\ pc = "done" =>
          /\ newBlock.ArbOSFormatVersion # 0
          /\ n >= 2
          /\ tape[n - 1] = Op("SetLastBlockHash", newBlock.Hash)
          /\ tape[n] = Op("SetSendRoot", newBlock.SendRoot)
          /\ Count("SetLastBlockHash") = 1 /\ Count("SetSendRoot") = 1
    /\ pc = "sendRoot" =>
          /\ newBlock.ArbOSFormatVersion # 0
          /\ tape[n] = Op("SetLastBlockHash", newBlock.Hash)
          /\ Count("SetLastBlockHash") = 1 /\ Count("SetSendRoot") = 0
    /\ pc \notin {"done", "sendRoot"} =>
          Count("SetLastBlockHash") = 0 /\ Count("SetSendRoot") = 0
    /\ (newBlock # Nil /\ newBlock.ArbOSFormatVersion = 0 /\ pc # "final") =>
          pc = "aborted" /\ fatal = "ArbOSVersionZero"

\* a completed run, both writes made
C6_Witness ==
    /\ pc = "done"
    /\ Count("SetLastBlockHash") = 1 /\ Count("SetSendRoot") = 1
    /\ newBlock.ArbOSFormatVersion = MaxVersion

\* ---------------------------------------------------------------- C7
\* C7 as stated: main takes the genesis path if and only if last_block_hash
\* is zero, and calls ProduceBlock for every nonzero last_block_hash.
C7_GenesisIffZeroHash ==
    /\ path # "none" => (path = "genesis" <=> lastBlockHash = 0)
    /\ pc = "init" => lastBlockHash = 0
    /\ pc = "produce" => lastBlockHash # 0

\* C7 as amended: main takes the genesis path if and only if the prior state
\* root is zero: that is the case when last_block_hash is zero (no header is
\* resolved, no preimage at all before the pop's peek, and
\* delayed_messages_read = 0) and also when last_block_hash is
\* nonzero and the resolved header's state root is zero; for every nonzero
\* last_block_hash the prior header is resolved and delayed_messages_read is
\* its nonce, on either path; ProduceBlock is called on the normal path only.
C7_GenesisIffZeroStateRoot ==
    /\ path # "none" => (path = "genesis" <=> lastBlockStateRoot = 0)
    /\ (pc # "start" /\ lastBlockHash = 0) =>
          /\ lastBlockHeader = Nil /\ lastBlockStateRoot = 0
          /\ path \in {"none", "genesis"}
          /\ \A k \in 1..Len(tape) :
                tape[k].op = "ResolveTypedPreimage"
                => \E j \in 1..(k - 1) : tape[j].op = "GetInboxPosition"
    /\ (lastBlockHash # 0 /\ pc \notin {"start", "header"} /\
        fatal \notin {"ResolvePreimage", "ParseHeader"}) =>
          /\ lastBlockHeader # Nil
          /\ lastBlockStateRoot = lastBlockHeader.Root
          /\ tape[2] = Op("ResolveTypedPreimage", lastBlockHash)
    /\ FlagsChecked =>
          delayedMessagesRead = (IF lastBlockHash = 0 THEN 0 ELSE lastBlockHeader.Nonce)
    /\ pc = "produce" => path = "normal" /\ message # Nil
    /\ pc = "init" => path = "genesis" /\ message # Nil /\ arbChainParams = EmptyChainParams

\* a completed genesis run from a nonzero last_block_hash, its delayed count
\* taken from the header's nonce
C7_Witness ==
    /\ pc = "done" /\ path = "genesis"
    /\ lastBlockHash # 0
    /\ delayedMessagesRead = MaxNonce

====
